---- MODULE Spec2Model ----
(***************************************************************************)
(* A model of three pieces of ScandEval:                                   *)
(*   - align_model_and_tokenizer          (model_setups/utils.py)          *)
(*   - setup_model_for_question_answering (model_setups/utils.py)          *)
(*   - AngryTweetsBenchmark._log_metrics  (angry_tweets.py)                *)
(* Each piece has its own specification (SpecAlign, SpecQA, SpecLog); the  *)
(* variables of the other pieces stay at a fixed idle value.               *)
(***************************************************************************)
EXTENDS Integers, Sequences, FiniteSets, TLC

VARIABLES
    model,         \* align: the PreTrainedModel (config fields + embedding size)
    tokenizer,     \* align: the PreTrainedTokenizer
    raise_errors,  \* align: the raise_errors argument (the same in every call)
    outcome,       \* align: "none" | "returned" | "InvalidBenchmark" of the last call
    calls,         \* align: number of calls made so far
    pre,           \* align: [model, tokenizer] as they were when the last call began
    loaded,        \* align: [model, tokenizer] as they were loaded, before any call
    qa,            \* question answering: the module tree, its tables and the config
    log            \* logging: the metrics, and the message handed to logger.info

vars == <<model, tokenizer, raise_errors, outcome, calls, pre, loaded, qa, log>>

(***************************************************************************)
(* Optional values: an attribute that is missing (hasattr is False) or is  *)
(* None has some = FALSE.                                                  *)
(***************************************************************************)
None == [some |-> FALSE, v |-> 0]
Some(x) == [some |-> TRUE, v |-> x]
NoToken == [some |-> FALSE, v |-> ""]

\* Bounds of the inputs
MaxLen == 2      \* small declared lengths are 1..MaxLen
MaxPos == 3      \* max_position_embeddings are 1..MaxPos
MaxVocab == 2    \* vocabulary sizes are 1..MaxVocab

\* Program constants
Sentinel == 100000        \* utils.py:114, lengths >= 100_000 count as unset
DefaultMaxLength == 512   \* utils.py:144

OptOf(S) == {None} \cup {Some(x) : x \in S}

\* The tokenizer's vocabulary: the id of a token is its position, from 0.
Vocab == <<"<pad>", "</s>", "[SEP]">>

convert_tokens_to_ids(token) ==
    (CHOOSE i \in 1..Len(Vocab) : Vocab[i] = token) - 1

\* tokenizer.pad_token_id: None when there is no pad token, else its id
pad_token_id(t) ==
    IF t.pad_token.some THEN Some(convert_tokens_to_ids(t.pad_token.v)) ELSE None

RECURSIVE min(_)
min(s) ==
    IF Len(s) = 1 THEN s[1]
    ELSE LET m == min(Tail(s)) IN IF s[1] <= m THEN s[1] ELSE m

\* The values of a sequence of optional values that are not None, in order
RECURSIVE NotNone(_)
NotNone(s) ==
    IF s = <<>> THEN <<>>
    ELSE (IF s[1].some THEN <<s[1].v>> ELSE <<>>) \o NotNone(Tail(s))

\* registered_max_length with the comparison off by one: 100,000 itself counts
registered_max_length_inclusive(t) ==
    IF t.model_max_length.some /\ t.model_max_length.v <= Sentinel
    THEN <<t.model_max_length.v>> ELSE <<>>

\* utils.py:113-115: the registered max length of the tokenizer
registered_max_length(t) ==
    IF t.model_max_length.some /\ t.model_max_length.v < Sentinel
    THEN <<t.model_max_length.v>> ELSE <<>>

\* position_max_length without the final "- 1"
position_max_length_no_offset(m, t) ==
    IF m.max_position_embeddings.some /\ pad_token_id(t).some
    THEN <<m.max_position_embeddings.v - pad_token_id(t).v>> ELSE <<>>

\* utils.py:117-125: the max length derived from the position embeddings
position_max_length(m, t) ==
    IF m.max_position_embeddings.some /\ pad_token_id(t).some
    THEN <<m.max_position_embeddings.v - pad_token_id(t).v - 1>> ELSE <<>>

\* utils.py:127-135: the max lengths derived from the model's input sizes
input_sizes_max_lengths(t) ==
    IF t.has_max_model_input_sizes THEN NotNone(t.max_model_input_sizes) ELSE <<>>

all_max_lengths(m, t) ==
    registered_max_length(t) \o position_max_length(m, t) \o input_sizes_max_lengths(t)

\* utils.py:137-144: the shortest length found, else the default
set_model_max_length(m, t) ==
    [t EXCEPT !.model_max_length =
        IF Len(all_max_lengths(m, t)) > 0
        THEN Some(min(all_max_lengths(m, t)))
        ELSE Some(DefaultMaxLength)]

\* model.resize_token_embeddings(new_num_tokens): a new embedding table of
\* that many rows, and config.vocab_size updated to it
resize_token_embeddings(m, new_num_tokens) ==
    [m EXCEPT !.embed_size = new_num_tokens,
              !.config_vocab_size = Some(new_num_tokens)]

\* vocab_mismatch with the comparison reversed
vocab_mismatch_reversed(m, t) ==
    /\ m.config_vocab_size.some
    /\ t.vocab_size.some
    /\ m.config_vocab_size.v > t.vocab_size.v

\* utils.py:148-149: both vocabulary sizes exist and the model's is smaller
vocab_mismatch(m, t) ==
    /\ m.config_vocab_size.some
    /\ t.vocab_size.some
    /\ m.config_vocab_size.v < t.vocab_size.v

\* reconcile_vocab with the resize made before the raise
reconcile_vocab_resize_first(m, t, raise) ==
    IF vocab_mismatch(m, t)
    THEN [model |-> resize_token_embeddings(m, t.vocab_size.v + 1),
          raised |-> raise]
    ELSE [model |-> m, raised |-> FALSE]

\* reconcile_vocab resizing to the tokenizer's vocabulary size exactly
reconcile_vocab_exact(m, t, raise) ==
    IF vocab_mismatch(m, t)
    THEN IF raise
         THEN [model |-> m, raised |-> TRUE]
         ELSE [model |-> resize_token_embeddings(m, t.vocab_size.v),
               raised |-> FALSE]
    ELSE [model |-> m, raised |-> FALSE]

\* utils.py:146-156: raise on a mismatch, or resize the embeddings
reconcile_vocab(m, t, raise) ==
    IF vocab_mismatch(m, t)
    THEN IF raise
         THEN [model |-> m, raised |-> TRUE]
         ELSE [model |-> resize_token_embeddings(m, t.vocab_size.v + 1),
               raised |-> FALSE]
    ELSE [model |-> m, raised |-> FALSE]

\* utils.py:162-164 and 166-168: pad with `token`, on the left
use_as_pad_token(m, t, token) ==
    LET t2 == [t EXCEPT !.padding_side = "left", !.pad_token = token]
    IN [model |-> [m EXCEPT !.config_pad_token_id = pad_token_id(t2)],
        tokenizer |-> t2,
        raised |-> FALSE]

\* set_pad_token trying the SEP token before the EOS token
set_pad_token_sep_first(m, t) ==
    IF ~t.pad_token.some
    THEN IF t.sep_token.some THEN use_as_pad_token(m, t, t.sep_token)
         ELSE IF t.eos_token.some THEN use_as_pad_token(m, t, t.eos_token)
         ELSE [model |-> m, tokenizer |-> t, raised |-> TRUE]
    ELSE [model |-> m, tokenizer |-> t, raised |-> FALSE]

\* set_pad_token without the final raise
set_pad_token_no_raise(m, t) ==
    IF ~t.pad_token.some
    THEN IF t.eos_token.some THEN use_as_pad_token(m, t, t.eos_token)
         ELSE IF t.sep_token.some THEN use_as_pad_token(m, t, t.sep_token)
         ELSE [model |-> m, tokenizer |-> t, raised |-> FALSE]
    ELSE [model |-> m, tokenizer |-> t, raised |-> FALSE]

\* utils.py:158-173: find a padding token when the tokenizer has none
set_pad_token(m, t) ==
    IF ~t.pad_token.some
    THEN IF t.eos_token.some THEN use_as_pad_token(m, t, t.eos_token)
         ELSE IF t.sep_token.some THEN use_as_pad_token(m, t, t.sep_token)
         ELSE [model |-> m, tokenizer |-> t, raised |-> TRUE]
    ELSE [model |-> m, tokenizer |-> t, raised |-> FALSE]

\* utils.py:93-175: the whole call; the mutations made before a raise stay
align_model_and_tokenizer(m, t, raise) ==
    LET t1 == set_model_max_length(m, t)
        r1 == reconcile_vocab(m, t1, raise)
        r2 == set_pad_token(r1.model, t1)
    IN IF r1.raised
       THEN [model |-> r1.model, tokenizer |-> t1, outcome |-> "InvalidBenchmark"]
       ELSE IF r2.raised
       THEN [model |-> r2.model, tokenizer |-> r2.tokenizer,
             outcome |-> "InvalidBenchmark"]
       ELSE [model |-> r2.model, tokenizer |-> r2.tokenizer, outcome |-> "returned"]

(***************************************************************************)
(* The inputs of align_model_and_tokenizer.                                *)
(***************************************************************************)
DeclaredLengths == (1..MaxLen) \cup {Sentinel - 1, Sentinel}

\* the values of tokenizer.max_model_input_sizes, for up to two architectures
InputSizes ==
    UNION {[1..n -> OptOf((1..MaxLen) \cup {Sentinel})] : n \in 0..2}

Tokenizers ==
    [model_max_length : OptOf(DeclaredLengths),
     vocab_size : OptOf(1..MaxVocab),
     pad_token : {NoToken, Some(Vocab[1])},
     eos_token : {NoToken, Some(Vocab[2])},
     sep_token : {NoToken, Some(Vocab[3])},
     padding_side : {"right"},
     has_max_model_input_sizes : BOOLEAN,
     max_model_input_sizes : InputSizes]

\* A model's embedding table has config.vocab_size rows when the config
\* declares a vocab_size.
Models ==
    {m \in [config_vocab_size : OptOf(1..MaxVocab),
            embed_size : 1..MaxVocab,
            config_pad_token_id : {None},
            max_position_embeddings : OptOf(1..MaxPos)] :
        m.config_vocab_size.some => m.embed_size = m.config_vocab_size.v}

IdleModel == [config_vocab_size |-> None, embed_size |-> 1,
              config_pad_token_id |-> None, max_position_embeddings |-> None]
IdleTokenizer == [model_max_length |-> None, vocab_size |-> None,
                  pad_token |-> NoToken, eos_token |-> NoToken,
                  sep_token |-> NoToken, padding_side |-> "right",
                  has_max_model_input_sizes |-> FALSE,
                  max_model_input_sizes |-> <<>>]
IdleQA == [idle |-> TRUE]
IdleLog == [idle |-> TRUE]

InitAlign ==
    /\ model \in Models
    /\ tokenizer \in {t \in Tokenizers :
            ~t.has_max_model_input_sizes => t.max_model_input_sizes = <<>>}
    /\ model.config_pad_token_id = None
    /\ raise_errors \in BOOLEAN
    /\ outcome = "none"
    /\ calls = 0
    /\ pre = [model |-> model, tokenizer |-> tokenizer]
    /\ loaded = pre
    /\ qa = IdleQA
    /\ log = IdleLog

\* One call of align_model_and_tokenizer on the current pair
Call ==
    LET r == align_model_and_tokenizer(model, tokenizer, raise_errors)
    IN /\ pre' = [model |-> model, tokenizer |-> tokenizer]
       /\ model' = r.model
       /\ tokenizer' = r.tokenizer
       /\ outcome' = r.outcome
       /\ calls' = calls + 1
       /\ UNCHANGED <<raise_errors, loaded, qa, log>>

\* The first call, on the pair as loaded
Align ==
    /\ calls = 0
    /\ Call

\* A second call, on the pair the first call returned
AlignAgain ==
    /\ calls = 1
    /\ outcome = "returned"
    /\ Call

NextAlign == Align \/ AlignAgain

SpecAlign == InitAlign /\ [][NextAlign]_vars

(***************************************************************************)
(* Claims about align_model_and_tokenizer, checked under SpecAlign.  In a  *)
(* state with calls >= 1, pre is the pair as the last call received it and *)
(* model, tokenizer, outcome are what the call left.                       *)
(***************************************************************************)
Called == calls >= 1
Returned == Called /\ outcome = "returned"
Failed == Called /\ outcome = "InvalidBenchmark"

\* both vocabulary sizes are declared and the model's is the smaller
DeclaredSmaller(p) ==
    /\ p.model.config_vocab_size.some
    /\ p.tokenizer.vocab_size.some
    /\ p.model.config_vocab_size.v < p.tokenizer.vocab_size.v

\* C1: when the model's declared vocabulary size is smaller than the
\* tokenizer's and raise_errors is True, the call fails with InvalidBenchmark
\* and the model (embedding size, config.vocab_size, config.pad_token_id) is
\* as it was before the call.
C1_RaiseLeavesModel ==
    (Called /\ raise_errors /\ DeclaredSmaller(pre)) =>
        /\ outcome = "InvalidBenchmark"
        /\ model.embed_size = pre.model.embed_size
        /\ model.config_vocab_size = pre.model.config_vocab_size
        /\ model.config_pad_token_id = pre.model.config_pad_token_id

C1_Witness ==
    /\ Called /\ raise_errors /\ DeclaredSmaller(pre)
    /\ outcome = "InvalidBenchmark"
    /\ pre.tokenizer.eos_token.some

\* C2: when the model's declared vocabulary size is smaller than the
\* tokenizer's and raise_errors is False, the embedding table is resized to
\* the tokenizer's vocabulary size + 1; when the model's declared size is
\* already >= the tokenizer's, the embedding size is left unchanged.
C2_ResizeToVocabPlusOne ==
    /\ (Called /\ ~raise_errors /\ DeclaredSmaller(pre)) =>
            model.embed_size = pre.tokenizer.vocab_size.v + 1
    /\ (/\ Called
        /\ pre.model.config_vocab_size.some
        /\ pre.tokenizer.vocab_size.some
        /\ pre.model.config_vocab_size.v >= pre.tokenizer.vocab_size.v) =>
            model.embed_size = pre.model.embed_size

C2_Witness ==
    /\ Called /\ ~raise_errors /\ DeclaredSmaller(pre)
    /\ model.embed_size = pre.tokenizer.vocab_size.v + 1
    /\ model.embed_size > pre.model.embed_size

\* The signals of the maximum length, as a set, read from the pair as the
\* call received it.
Signals(p) ==
    {x \in {p.tokenizer.model_max_length.v} :
        p.tokenizer.model_max_length.some /\ x < 100000}
    \cup
    {p.model.max_position_embeddings.v - i - 1 :
        i \in {j \in 0..(Len(Vocab) - 1) :
                /\ p.model.max_position_embeddings.some
                /\ p.tokenizer.pad_token.some
                /\ Vocab[j + 1] = p.tokenizer.pad_token.v}}
    \cup
    {p.tokenizer.max_model_input_sizes[k].v :
        k \in {j \in DOMAIN p.tokenizer.max_model_input_sizes :
                /\ p.tokenizer.has_max_model_input_sizes
                /\ p.tokenizer.max_model_input_sizes[j].some}}

Least(S) == CHOOSE x \in S : \A y \in S : x <= y

\* C3: after the call (however it ends) the tokenizer's maximum length is the
\* minimum of the signals the pair carried when the call began: the declared
\* length if below 100,000, max_position_embeddings - pad token id - 1 when
\* both exist, and every non-null maximum input size; with no signal it is 512.
C3_EffectiveMaxLength ==
    Called =>
        /\ tokenizer.model_max_length.some
        /\ tokenizer.model_max_length.v =
               IF Signals(pre) = {} THEN 512 ELSE Least(Signals(pre))

\* a declared length of 100,000 or more was ignored in favour of a larger
\* advertised input size
C3_Witness ==
    /\ Called
    /\ pre.tokenizer.model_max_length.some
    /\ pre.tokenizer.model_max_length.v >= 100000
    /\ Cardinality(Signals(pre)) >= 2
    /\ tokenizer.model_max_length.v < 100000
    /\ tokenizer.model_max_length.v = Least(Signals(pre))

\* C4: for a tokenizer without a pad token, a returned pair has the EOS token
\* as pad token when an EOS token is defined (with or without a SEP token),
\* the SEP token only when there is no EOS token, padding side "left" in
\* both cases, and config.pad_token_id equal to the id of the new pad token.
C4_PadResolutionOrder ==
    (Returned /\ ~pre.tokenizer.pad_token.some) =>
        /\ pre.tokenizer.eos_token.some =>
               tokenizer.pad_token = pre.tokenizer.eos_token
        /\ (~pre.tokenizer.eos_token.some /\ pre.tokenizer.sep_token.some) =>
               tokenizer.pad_token = pre.tokenizer.sep_token
        /\ tokenizer.padding_side = "left"
        /\ tokenizer.pad_token.some
        /\ model.config_pad_token_id.some
        /\ Vocab[model.config_pad_token_id.v + 1] = tokenizer.pad_token.v

\* both an EOS and a SEP token were defined, and the EOS token was taken
C4_Witness ==
    /\ Returned /\ ~pre.tokenizer.pad_token.some
    /\ pre.tokenizer.eos_token.some /\ pre.tokenizer.sep_token.some
    /\ tokenizer.pad_token = pre.tokenizer.eos_token
    /\ tokenizer.padding_side = "left"

\* C5: for a tokenizer with no pad, EOS or SEP token the call fails with
\* InvalidBenchmark whatever raise_errors is, and no returned pair has a
\* tokenizer without a pad token.
C5_NoPadTokenFails ==
    /\ (/\ Called
        /\ ~pre.tokenizer.pad_token.some
        /\ ~pre.tokenizer.eos_token.some
        /\ ~pre.tokenizer.sep_token.some) => outcome = "InvalidBenchmark"
    /\ Returned => tokenizer.pad_token.some

\* the failure came from the padding step: the vocabulary was first repaired
C5_Witness ==
    /\ Failed /\ ~raise_errors
    /\ ~pre.tokenizer.pad_token.some
    /\ ~pre.tokenizer.eos_token.some
    /\ ~pre.tokenizer.sep_token.some
    /\ DeclaredSmaller(pre)

\* C7 as stated: every returned pair has a defined maximum length, a pad
\* token, and a model input vocabulary (its embedding table) at least as
\* large as the tokenizer's vocabulary.
C7_ReturnedPairAligned ==
    Returned =>
        /\ tokenizer.model_max_length.some
        /\ tokenizer.pad_token.some
        /\ tokenizer.vocab_size.some => model.embed_size >= tokenizer.vocab_size.v

\* C7 amended: every returned pair has a defined maximum length and a pad
\* token, and when the model's config and the tokenizer both declare a
\* vocabulary size the model's declared size is >= the tokenizer's.
C7_ReturnedPairAlignedWhenDeclared ==
    Returned =>
        /\ tokenizer.model_max_length.some
        /\ tokenizer.pad_token.some
        /\ (model.config_vocab_size.some /\ tokenizer.vocab_size.some) =>
               model.config_vocab_size.v >= tokenizer.vocab_size.v

\* a pair returned after its vocabulary was repaired and its pad token set
C7_Witness ==
    /\ Returned
    /\ DeclaredSmaller(pre)
    /\ ~pre.tokenizer.pad_token.some
    /\ model.config_vocab_size.v > tokenizer.vocab_size.v

\* what a second call leaves as the first call left it, the maximum length
\* aside
SecondCallKeeps ==
    /\ outcome = "returned"
    /\ tokenizer.pad_token = pre.tokenizer.pad_token
    /\ tokenizer.padding_side = pre.tokenizer.padding_side
    /\ model.config_pad_token_id = pre.model.config_pad_token_id
    /\ model.embed_size = pre.model.embed_size
    /\ model.config_vocab_size = pre.model.config_vocab_size

\* C10 as stated: a second call on a returned pair succeeds and leaves the
\* maximum length, pad token, padding side, config.pad_token_id and the
\* embedding/vocabulary size as the first call left them.
C10_Idempotent ==
    calls = 2 =>
        /\ SecondCallKeeps
        /\ tokenizer.model_max_length = pre.tokenizer.model_max_length

\* the first call gave the tokenizer its pad token, on a model that
\* declares max_position_embeddings
PadSignalAppeared ==
    /\ ~loaded.tokenizer.pad_token.some
    /\ loaded.model.max_position_embeddings.some

\* C10 amended: a second call on a returned pair succeeds and keeps the pad
\* token, padding side, config.pad_token_id and embedding/vocabulary size; it
\* keeps the maximum length when the tokenizer was loaded with a pad token or
\* the model declares no max_position_embeddings, and otherwise leaves the
\* smaller of the first call's length and max_position_embeddings - pad
\* token id - 1.
C10_IdempotentButMaxLength ==
    calls = 2 =>
        /\ SecondCallKeeps
        /\ tokenizer.model_max_length.some
        /\ ~PadSignalAppeared =>
               tokenizer.model_max_length = pre.tokenizer.model_max_length
        /\ PadSignalAppeared =>
               LET derived == model.max_position_embeddings.v
                              - model.config_pad_token_id.v - 1
                   before == pre.tokenizer.model_max_length.v
               IN tokenizer.model_max_length.v =
                      IF derived < before THEN derived ELSE before

\* the second call shortened the maximum length the first call had set
C10_Witness ==
    /\ calls = 2
    /\ PadSignalAppeared
    /\ tokenizer.model_max_length.v < pre.tokenizer.model_max_length.v
    /\ pre.tokenizer.model_max_length.v < 100000

(***************************************************************************)
(* setup_model_for_question_answering.  The model is a tree of named       *)
(* modules: node 1 is the model itself, parent[i] < i is the module that   *)
(* holds module i, and named_children() yields the children of a module in *)
(* increasing order.  A module without children holds an embedding table   *)
(* weight[i] (a sequence of rows) and its num_embeddings field.            *)
(***************************************************************************)
MaxNodes == 4    \* modules in the tree, the model included
MaxRows == 3     \* rows of an embedding table
MaxH == 2        \* width of an embedding row

ModuleNames == {"token_type_embeddings", "word_embeddings", "embeddings"}

\* the values torch.rand_like may draw for an entry of the new row
RandVals == {0, 1}

\* named_children(): the modules held by module i, in order
named_children(q, i) ==
    SelectSeq([k \in 1..q.n |-> k], LAMBDA j : q.parent[j] = i)

NoChildren == [kind |-> "none", node |-> 0, items |-> <<>>]

\* Python's truth value of what get_children_of_module returns: None and the
\* empty dict are false, a module and a dict with entries are true
Truthy(c) == c.kind = "module" \/ (c.kind = "dict" /\ Len(c.items) > 0)

\* utils.py:12-38
RECURSIVE get_children_of_module(_, _, _)
get_children_of_module(q, name, module) ==
    IF Len(named_children(q, module)) = 0
    THEN IF name = "token_type_embeddings"
         THEN [kind |-> "module", node |-> module, items |-> <<>>]
         ELSE NoChildren
    ELSE LET subs == named_children(q, module)
             all == [k \in 1..Len(subs) |->
                        [key |-> q.name[subs[k]],
                         value |-> get_children_of_module(q, q.name[subs[k]], subs[k])]]
         IN [kind |-> "dict", node |-> 0,
             items |-> SelectSeq(all, LAMBDA e : Truthy(e.value))]

\* utils.py:59-68: follow the first entry of each dict down to a module
RECURSIVE attribute_list(_)
attribute_list(children) ==
    LET first == children.items[1]
    IN <<first.key>> \o
       (IF first.value.kind = "dict" THEN attribute_list(first.value) ELSE <<>>)

\* getattr(module, attribute): the child of that name
getattr(q, module, attribute) ==
    CHOOSE c \in 1..q.n : q.parent[c] = module /\ q.name[c] = attribute

\* utils.py:71-73
RECURSIVE follow_attributes(_, _, _)
follow_attributes(q, module, attributes) ==
    IF attributes = <<>> THEN module
    ELSE follow_attributes(q, getattr(q, module, attributes[1]), Tail(attributes))

\* cat_random_row with the arguments of torch.cat swapped
cat_random_row_first(weight, rand) == <<rand>> \o weight

\* utils.py:78-84: torch.cat((weight, rand_like(weight)), dim=0)
cat_random_row(weight, rand) == weight \o <<rand>>

\* utils.py:75-85: a table of one row gets a second, random row
expand_token_type_embeddings(q, t, rand) ==
    IF Len(q.weight[t]) = 1
    THEN [q EXCEPT !.weight[t] = cat_random_row(q.weight[t], rand),
                   !.num_embeddings[t] = 2]
    ELSE q

\* utils.py:87-88
set_type_vocab_size(q) == [q EXCEPT !.type_vocab_size = Some(2)]

\* utils.py:41-90: the model after the call, the new row being `rand`
setup_model_for_question_answering(q, rand) ==
    LET children == get_children_of_module(q, "model", 1)
    IN IF Truthy(children)
       THEN LET token_type_embeddings ==
                    follow_attributes(q, 1, attribute_list(children))
            IN set_type_vocab_size(
                   expand_token_type_embeddings(q, token_type_embeddings, rand))
       ELSE q

IsLeaf(q, i) == \A j \in 1..q.n : q.parent[j] # i

\* the table a module is loaded with: R rows of width H
Table(R, H) == [i \in 1..R |-> [j \in 1..H |-> 10 * i + j]]

\* The parents of the modules of a tree of n modules: parent[1] = 0 and
\* 1 <= parent[i] < i
RECURSIVE Parents(_)
Parents(n) ==
    IF n = 1 THEN {<<0>>}
    ELSE {Append(p, k) : p \in Parents(n - 1), k \in 1..(n - 1)}

\* The names of the modules: the model, and then attribute names
Names(n) ==
    {<<"model">> \o f : f \in [1..(n - 1) -> ModuleNames]}

\* The trees: no two children of a module share a name (they are attributes
\* of it).
Trees(n) ==
    {t \in [parent : Parents(n), name : Names(n)] :
        \A i, j \in 2..n :
            (i # j /\ t.parent[i] = t.parent[j]) => t.name[i] # t.name[j]}

\* the leaves of tree t that are named token_type_embeddings
NamedTokenType(t, n) ==
    {i \in 1..n : IsLeaf([n |-> n, parent |-> t.parent], i)
                  /\ t.name[i] = "token_type_embeddings"}

\* The model of tree t with rows of width h, rows[i] rows in the token-type
\* table i and MaxRows rows in the other tables; num_embeddings is the number
\* of rows.
QAModel(t, n, h, rows, tvs) ==
    [n |-> n, parent |-> t.parent, name |-> t.name,
     weight |-> [i \in 1..n |->
            IF ~IsLeaf([n |-> n, parent |-> t.parent], i) THEN <<>>
            ELSE IF i \in DOMAIN rows THEN Table(rows[i], h)
            ELSE Table(MaxRows, h)],
     num_embeddings |-> [i \in 1..n |->
            IF ~IsLeaf([n |-> n, parent |-> t.parent], i) THEN 0
            ELSE IF i \in DOMAIN rows THEN rows[i]
            ELSE MaxRows],
     type_vocab_size |-> tvs]

InitQA ==
    /\ \E n \in 1..MaxNodes : \E t \in Trees(n) :
       \E h \in 1..MaxH, tvs \in OptOf(1..MaxRows) :
       \E rows \in [NamedTokenType(t, n) -> 1..MaxRows] :
          qa = [m |-> QAModel(t, n, h, rows, tvs),
                before |-> QAModel(t, n, h, rows, tvs),
                called |-> FALSE]
    /\ model = IdleModel
    /\ tokenizer = IdleTokenizer
    /\ raise_errors = FALSE
    /\ outcome = "none"
    /\ calls = 0
    /\ pre = [model |-> IdleModel, tokenizer |-> IdleTokenizer]
    /\ loaded = pre
    /\ log = IdleLog

\* the width of the model's embedding rows
Width(q) == IF \E i \in 1..q.n : q.weight[i] # <<>>
            THEN Len((q.weight[CHOOSE i \in 1..q.n : q.weight[i] # <<>>])[1])
            ELSE 1

SetupQA ==
    /\ ~qa.called
    /\ \E rand \in [1..Width(qa.m) -> RandVals] :
          qa' = [qa EXCEPT !.m = setup_model_for_question_answering(qa.m, rand),
                           !.called = TRUE]
    /\ UNCHANGED <<model, tokenizer, raise_errors, outcome, calls, pre, loaded, log>>

NextQA == SetupQA

SpecQA == InitQA /\ [][NextQA]_vars

(***************************************************************************)
(* Claims about setup_model_for_question_answering, checked under SpecQA.  *)
(* qa.before is the model as the call received it, qa.m as it left it.     *)
(***************************************************************************)
\* the token_type_embeddings leaves of the submodule tree
TokenTypeLeaves(q) ==
    {i \in 2..q.n : q.name[i] = "token_type_embeddings"
                    /\ ~\E j \in 1..q.n : q.parent[j] = i}

\* the model's one token-type embedding table
TheTable(q) == CHOOSE i \in TokenTypeLeaves(q) : TRUE

\* C6: after the call, a model whose token-type embedding table had shape
\* (1, H) has it with shape (2, H) and the same first row; a model with no
\* token_type_embeddings leaf in its tree is unchanged (no table, no
\* num_embeddings, and config.type_vocab_size as before).
C6_ExpandOneRowTable ==
    qa.called =>
        /\ (/\ Cardinality(TokenTypeLeaves(qa.before)) = 1
            /\ Len(qa.before.weight[TheTable(qa.before)]) = 1) =>
               LET t == TheTable(qa.before)
               IN /\ Len(qa.m.weight[t]) = 2
                  /\ \A r \in 1..2 :
                        Len(qa.m.weight[t][r]) = Len(qa.before.weight[t][1])
                  /\ qa.m.weight[t][1] = qa.before.weight[t][1]
        /\ TokenTypeLeaves(qa.before) = {} => qa.m = qa.before

\* a one-row table two levels below the model was expanded, its new row
\* differing from its first
C6_Witness ==
    /\ qa.called
    /\ Cardinality(TokenTypeLeaves(qa.before)) = 1
    /\ LET t == TheTable(qa.before)
       IN /\ qa.before.parent[t] # 1
          /\ Len(qa.before.weight[t]) = 1
          /\ Len(qa.before.weight[t][1]) = 2
          /\ Len(qa.m.weight[t]) = 2
          /\ qa.m.weight[t][2] # qa.m.weight[t][1]

\* C9: after the call, for a model with a token_type_embeddings leaf (of any
\* number of rows), config.type_vocab_size equals the number of rows of the
\* token-type embedding table and the table's num_embeddings field.
C9_TypeVocabSizeMatchesTable ==
    (qa.called /\ Cardinality(TokenTypeLeaves(qa.before)) = 1) =>
        LET t == TheTable(qa.before)
        IN /\ qa.m.type_vocab_size = Some(Len(qa.m.weight[t]))
           /\ qa.m.num_embeddings[t] = Len(qa.m.weight[t])

(***************************************************************************)
(* AngryTweetsBenchmark._log_metrics.  A float is [nan, v]: not-a-number,  *)
(* or the number v / 10^5.  The metrics hold one macro_f1 score per        *)
(* repetition and split.                                                   *)
(***************************************************************************)
MaxReps == 3     \* repetitions of the fine-tuning

NaN == [nan |-> TRUE, v |-> 0]
Float(x) == [nan |-> FALSE, v |-> x]

\* macro-F1 scores of a repetition: 0.33333, 0.33338 and 0.5
Scores == {33333, 33338, 50000}

RECURSIVE Sum(_)
Sum(s) == IF s = <<>> THEN 0 ELSE s[1] + Sum(Tail(s))

\* the integer square root of n, searched in lo..hi
RECURSIVE ISqrt(_, _, _)
ISqrt(n, lo, hi) ==
    IF lo >= hi THEN lo
    ELSE LET mid == (lo + hi + 1) \div 2
         IN IF mid * mid <= n THEN ISqrt(n, mid, hi) ELSE ISqrt(n, lo, mid - 1)

\* _get_stats(split, metrics, metric_name): the mean of the scores of the
\* split and its standard error, the sample standard deviation over the
\* square root of the number of repetitions; not-a-number with one repetition
get_stats(metrics, split) ==
    LET scores == metrics[split]
        N == Len(scores)
        mean == Sum(scores) \div N
        squares == Sum([i \in 1..N |-> (scores[i] - mean) * (scores[i] - mean)])
    IN [mean |-> Float(mean),
        std_err |-> IF N = 1 THEN NaN
                    ELSE Float(ISqrt((squares \div (N - 1)) \div N, 0, 46340))]

\* angry_tweets.py:101-105: x *= 100; not-a-number stays not-a-number
times100(x) == IF x.nan THEN NaN ELSE Float(x.v * 100)

\* x rounded to the nearest multiple of unit, halves to the even multiple
RoundHalfEven(x, unit) ==
    LET q == x \div unit
        r == x % unit
    IN IF 2 * r < unit THEN q
       ELSE IF 2 * r > unit THEN q + 1
       ELSE IF q % 2 = 0 THEN q ELSE q + 1

\* f'{x:.2f}': the text "nan", or the number in hundredths
format_2f(x) ==
    IF x.nan THEN [text |-> "nan", hundredths |-> 0]
    ELSE [text |-> "number", hundredths |-> RoundHalfEven(x.v, 1000)]

Qualifier == [text |-> "+-", hundredths |-> 0]

\* format_msg with the test of not-a-number inverted
format_msg_inverted(train_mean, train_std_err, test_mean, test_std_err) ==
    IF train_std_err.nan
    THEN [header |-> "Mean macro-average F1-scores on AngryTweets",
          train |-> <<format_2f(train_mean), Qualifier, format_2f(train_std_err)>>,
          test |-> <<format_2f(test_mean), Qualifier, format_2f(test_std_err)>>]
    ELSE [header |-> "Macro-average F1-scores on AngryTweets",
          train |-> <<format_2f(train_mean)>>,
          test |-> <<format_2f(test_mean)>>]

\* angry_tweets.py:107-114: the message, as its header and the parts of its
\* two lines
format_msg(train_mean, train_std_err, test_mean, test_std_err) ==
    IF ~train_std_err.nan
    THEN [header |-> "Mean macro-average F1-scores on AngryTweets",
          train |-> <<format_2f(train_mean), Qualifier, format_2f(train_std_err)>>,
          test |-> <<format_2f(test_mean), Qualifier, format_2f(test_std_err)>>]
    ELSE [header |-> "Macro-average F1-scores on AngryTweets",
          train |-> <<format_2f(train_mean)>>,
          test |-> <<format_2f(test_mean)>>]

\* angry_tweets.py:93-116: the message handed to logger.info
log_metrics(train_stats, test_stats) ==
    format_msg(times100(train_stats.mean), times100(train_stats.std_err),
               times100(test_stats.mean), times100(test_stats.std_err))

NoMsg == [header |-> "", train |-> <<>>, test |-> <<>>]
NoStats == [mean |-> NaN, std_err |-> NaN]

\* the metrics of 1..MaxReps repetitions, each with a train and a test score
Metrics ==
    UNION {[train : [1..n -> Scores], test : [1..n -> Scores]] : n \in 1..MaxReps}

InitLog ==
    /\ \E m \in Metrics :
          log = [metrics |-> m, logged |-> FALSE, msg |-> NoMsg,
                 train_stats |-> NoStats, test_stats |-> NoStats]
    /\ model = IdleModel
    /\ tokenizer = IdleTokenizer
    /\ raise_errors = FALSE
    /\ outcome = "none"
    /\ calls = 0
    /\ pre = [model |-> IdleModel, tokenizer |-> IdleTokenizer]
    /\ loaded = pre
    /\ qa = IdleQA

\* _log_metrics(metrics, model_id); the statistics _get_stats returned are
\* kept beside the message
LogMetrics ==
    /\ ~log.logged
    /\ LET train_stats == get_stats(log.metrics, "train")
           test_stats == get_stats(log.metrics, "test")
       IN log' = [log EXCEPT !.logged = TRUE,
                             !.train_stats = train_stats,
                             !.test_stats = test_stats,
                             !.msg = log_metrics(train_stats, test_stats)]
    /\ UNCHANGED <<model, tokenizer, raise_errors, outcome, calls, pre, loaded, qa>>

NextLog == LogMetrics

SpecLog == InitLog /\ [][NextLog]_vars

(***************************************************************************)
(* The claim about _log_metrics, checked under SpecLog.                    *)
(***************************************************************************)
Repetitions == Len(log.metrics.train)

\* the text parts of the message
Parts == {log.msg.train[i] : i \in DOMAIN log.msg.train}
         \cup {log.msg.test[i] : i \in DOMAIN log.msg.test}

\* a line made of the mean x100, the qualifier, and the standard error x100,
\* each to two decimals
LineWithError(line, stats) ==
    /\ Len(line) = 3
    /\ line[1] = [text |-> "number",
                  hundredths |-> RoundHalfEven(100 * stats.mean.v, 1000)]
    /\ line[2].text = "+-"
    /\ line[3] = [text |-> "number",
                  hundredths |-> RoundHalfEven(100 * stats.std_err.v, 1000)]

\* C8: with exactly one repetition (the standard errors are not-a-number) the
\* message has no standard-error qualifier on the train or the test line and
\* prints no not-a-number; when the standard errors are numbers, both lines
\* carry the mean x100, then the qualifier, then the standard error x100.
C8_OmitQualifierOnSingleRun ==
    log.logged =>
        /\ Repetitions = 1 =>
               /\ log.train_stats.std_err.nan /\ log.test_stats.std_err.nan
               /\ \A p \in Parts : p.text = "number"
               /\ Len(log.msg.train) = 1 /\ Len(log.msg.test) = 1
               /\ log.msg.train[1].hundredths =
                      RoundHalfEven(100 * log.train_stats.mean.v, 1000)
               /\ log.msg.test[1].hundredths =
                      RoundHalfEven(100 * log.test_stats.mean.v, 1000)
        /\ (~log.train_stats.std_err.nan /\ ~log.test_stats.std_err.nan) =>
               /\ LineWithError(log.msg.train, log.train_stats)
               /\ LineWithError(log.msg.test, log.test_stats)

\* one repetition was logged without qualifier, its mean rounded up
C8_Witness ==
    /\ log.logged
    /\ Repetitions = 1
    /\ log.train_stats.std_err.nan
    /\ log.msg.train = <<[text |-> "number", hundredths |-> 3334]>>
    /\ Len(log.msg.test) = 1

====
